---- MODULE Spec2Model ----
(***************************************************************************)
(* Model of src/app.py: the upload pipeline of the data-analysis panel.    *)
(*                                                                         *)
(*   upload_file -> process_data (clean_numeric per row) -> generate_charts*)
(*                                                                         *)
(* Text is a sequence of characters.  A table cell is a record             *)
(* [na, text]: na is what pd.isna answers for the cell, text is the cell's *)
(* string when it is a string.  A number is a record [k, n, d]:            *)
(*   k = "num"  the rational n/d (d > 0, lowest terms)                     *)
(*   k = "big"  a finite float too large to track, of sign n               *)
(*   k = "inf"  float infinity of sign n                                   *)
(*   k = "nan"  float not-a-number                                         *)
(* Finite values are tracked exactly; the rounding of binary64 arithmetic  *)
(* is not modelled.                                                        *)
(***************************************************************************)
EXTENDS Integers, Sequences, FiniteSets, TLC

VARIABLES
    value, cleaned, cleanPc,      \* one call of clean_numeric
    pc, df, processed, charts,    \* per request thread: position and locals
    fig, stats, failedAt,         \* per request thread: figure handle, bar data, where a render raised
    response,                     \* per request thread: what upload_file returned
    req,                          \* per request thread: the number of the request it serves
    figs,                         \* pyplot's registry of open figures, oldest first; the last is current
    served                        \* requests started so far

cleanVars == <<value, cleaned, cleanPc>>
reqVars == <<pc, df, processed, charts, fig, stats, failedAt, response, req>>
vars == <<value, cleaned, cleanPc, pc, df, processed, charts, fig, stats, failedAt,
          response, req, figs, served>>

----------------------------------------------------------------------------
(* Bounds of the model *)

\* longest short cell text that is enumerated
MaxLen == 3
\* length of the long digit run used as a cell that overflows a float
LongDigits == 400
\* most digits of a parsed number whose value is tracked exactly
MaxExactDigits == 9
\* most rows of an uploaded table
MaxRows == 2
\* most requests served in one run
MaxRequests == 2
\* request threads of the hosting process
NumThreads == 2

\* An integer part of more than this many significant digits exceeds the
\* largest binary64 (1.797...e308) and float() returns infinity for it.
DoubleMaxDigits == 309

----------------------------------------------------------------------------
(* Characters and text *)

\* Characters str.isdigit accepts: the ASCII digits, and other Unicode digits
\* such as SUP2 (U+00B2, superscript two) and AR3 (U+0663, Arabic-Indic three).
AsciiDigits == {"0", "1", "2", "3", "4", "5", "6", "7", "8", "9"}
IsDigit(c) == c \in AsciiDigits \cup {"SUP2", "AR3"}

\* Characters float() reads as a decimal digit (Unicode category Nd).
IsDecimal(c) == c \in AsciiDigits \cup {"AR3"}

DigitVal(c) ==
    CASE c = "0" -> 0 [] c = "1" -> 1 [] c = "2" -> 2 [] c = "3" -> 3
      [] c = "4" -> 4 [] c = "5" -> 5 [] c = "6" -> 6 [] c = "7" -> 7
      [] c = "8" -> 8 [] c = "9" -> 9 [] c = "AR3" -> 3

\* the text unchanged: a comparison that minds the case
LowerKeepsCase(s) == s

\* str.lower, one character
LowerChar(c) ==
    CASE c = "N" -> "n" [] c = "E" -> "e" [] c = "G" -> "g" [] OTHER -> c

Lower(s) == [i \in 1..Len(s) |-> LowerChar(s[i])]

\* sub in s
Contains(s, sub) ==
    \E i \in 0..(Len(s) - Len(sub)) :
        \A j \in 1..Len(sub) : s[i + j] = sub[j]

Null == [na |-> TRUE, text |-> <<>>]
Txt(s) == [na |-> FALSE, text |-> s]

\* pd.isna(value) / pd.notna(value)
IsNa(v) == v.na
NotNa(v) == ~v.na

\* str(value): a missing cell is the float NaN, whose text is "nan"
Str(v) == IF v.na THEN <<"n", "a", "n">> ELSE v.text

\* c * n
Repeat(c, n) == [i \in 1..n |-> c]

----------------------------------------------------------------------------
(* Numbers *)

RECURSIVE Gcd(_, _)
Gcd(a, b) == IF b = 0 THEN a ELSE Gcd(b, a % b)

Abs(x) == IF x < 0 THEN -x ELSE x

RECURSIVE Pow10(_)
Pow10(k) == IF k = 0 THEN 1 ELSE 10 * Pow10(k - 1)

\* the rational n/d in lowest terms
Rat(n, d) ==
    LET g == Gcd(Abs(n), d)
    IN  [k |-> "num", n |-> n \div g, d |-> d \div g]

Zero == Rat(0, 1)
Big(sign) == [k |-> "big", n |-> sign, d |-> 1]
Inf(sign) == [k |-> "inf", n |-> sign, d |-> 1]
NaN == [k |-> "nan", n |-> 0, d |-> 1]

IsFinite(x) == x.k \in {"num", "big"}

\* x + y on floats
Add(x, y) ==
    CASE x.k = "nan" \/ y.k = "nan" -> NaN
      [] x.k = "inf" /\ y.k = "inf" -> IF x.n = y.n THEN x ELSE NaN
      [] x.k = "inf" -> x
      [] y.k = "inf" -> y
      [] x.k = "big" -> x
      [] y.k = "big" -> y
      [] OTHER -> Rat(x.n * y.d + y.n * x.d, x.d * y.d)

\* x / c for a positive integer c
DivInt(x, c) ==
    CASE x.k = "num" -> Rat(x.n, x.d * c)
      [] OTHER -> x

\* abs(x)
AbsVal(x) ==
    CASE x.k = "num" -> Rat(Abs(x.n), x.d)
      [] x.k = "nan" -> x
      [] OTHER -> [x EXCEPT !.n = 1]

\* x > y on floats (every comparison with nan is false)
Greater(x, y) ==
    CASE x.k = "nan" \/ y.k = "nan" -> FALSE
      [] x.k = "inf" -> x.n = 1 /\ ~(y.k = "inf" /\ y.n = 1)
      [] y.k = "inf" -> y.n = -1
      [] x.k = "big" -> x.n = 1 /\ ~(y.k = "big" /\ y.n = 1)
      [] y.k = "big" -> y.n = -1
      [] OTHER -> x.n * y.d > y.n * x.d

----------------------------------------------------------------------------
(* clean_numeric *)

\* c.isdigit() or c in '.-'
IsKept(c) == IsDigit(c) \/ c \in {".", "-"}

\* ''.join(c for c in s if c.isdigit() or c in '.-')
KeepNumeric(s) == SelectSeq(s, IsKept)

\* the text after an optional leading minus sign
Unsigned(s) == IF s # <<>> /\ Head(s) = "-" THEN Tail(s) ELSE s

CountOf(s, c) == Cardinality({i \in 1..Len(s) : s[i] = c})

\* position of the decimal point, or Len + 1 when there is none
PointAt(s) ==
    IF \E i \in 1..Len(s) : s[i] = "."
    THEN CHOOSE i \in 1..Len(s) : s[i] = "."
    ELSE Len(s) + 1

\* float(s) does not raise ValueError, for s made of digits, '.' and '-':
\* an optional sign, then digits with at most one point and at least one
\* digit, every digit a decimal one.
FloatParses(s) ==
    LET u == Unsigned(s)
    IN  /\ CountOf(u, "-") = 0
        /\ CountOf(u, ".") <= 1
        /\ \E i \in 1..Len(u) : u[i] # "."
        /\ \A i \in 1..Len(u) : u[i] = "." \/ IsDecimal(u[i])

\* the digits without their leading zeros
StripZeros(ds) ==
    LET nz == {i \in 1..Len(ds) : DigitVal(ds[i]) # 0}
    IN  IF nz = {} THEN <<>>
        ELSE SubSeq(ds, CHOOSE i \in nz : \A j \in nz : i <= j, Len(ds))

RECURSIVE DigitsVal(_)
DigitsVal(ds) ==
    IF ds = <<>> THEN 0
    ELSE DigitsVal(SubSeq(ds, 1, Len(ds) - 1)) * 10 + DigitVal(ds[Len(ds)])

\* float(s) for a text float() accepts
Float(s) ==
    LET u == Unsigned(s)
        sign == IF Head(s) = "-" THEN -1 ELSE 1
        p == PointAt(u)
        ip == StripZeros(SubSeq(u, 1, p - 1))
        fp == SubSeq(u, p + 1, Len(u))
        \* fraction digits beyond the tracked precision are rounded away
        room == IF Len(fp) + Len(ip) > MaxExactDigits THEN MaxExactDigits - Len(ip) ELSE Len(fp)
        fk == SubSeq(fp, 1, room)
    IN  IF Len(ip) > DoubleMaxDigits THEN Inf(sign)
        ELSE IF Len(ip) > MaxExactDigits THEN Big(sign)
        ELSE Rat(sign * DigitsVal(ip \o fk), Pow10(Len(fk)))

clean_numeric(v) ==
    IF IsNa(v) THEN Zero
    ELSE LET kept == KeepNumeric(Str(v))
         IN  IF kept = <<>> THEN Zero
             ELSE IF FloatParses(kept) THEN Float(kept) ELSE Zero

----------------------------------------------------------------------------
(* Tables and process_data *)

Threads == 1..NumThreads

\* A row: its cells, and whether building the record from it raises (the
\* failure the handler of lines 113-115 absorbs, e.g. a label lookup row[k]
\* that raises KeyError).
Row(cells, raises) == [cells |-> cells, raises |-> raises]

\* A DataFrame: len(df.columns) and the rows df.iterrows yields.
Table(ncols, rows) == [ncols |-> ncols, rows |-> rows]

NA == <<"N", "/", "A">>
Positivo == <<"P", "o", "s", "i", "t", "i", "v", "o">>
Negativo == <<"N", "e", "g", "a", "t", "i", "v", "o">>

\* 'Negativo' if 'neg' in str(cell).lower() else 'Positivo'
Dimensao(cell) ==
    IF Contains(Lower(Str(cell)), <<"n", "e", "g">>) THEN Negativo ELSE Positivo

\* the item built from one row (row[0] .. row[3] are cells 1 .. 4)
BuildItem(row) ==
    [localidade |-> IF NotNa(row.cells[1]) THEN Str(row.cells[1]) ELSE NA,
     dimensao |-> Dimensao(row.cells[2]),
     indicador |-> IF NotNa(row.cells[3]) THEN Str(row.cells[3]) ELSE NA,
     valor |-> clean_numeric(row.cells[4])]

RECURSIVE ProcessRowsBreak(_)
\* the loop leaving at the first row that raises (break for continue)
ProcessRowsBreak(rows) ==
    IF rows = <<>> \/ Head(rows).raises THEN <<>>
    ELSE <<BuildItem(Head(rows))>> \o ProcessRowsBreak(Tail(rows))

RECURSIVE ProcessRows(_)
\* the loop over df.iterrows(): a row that raises is skipped
ProcessRows(rows) ==
    IF rows = <<>> THEN <<>>
    ELSE (IF Head(rows).raises THEN <<>> ELSE <<BuildItem(Head(rows))>>)
         \o ProcessRows(Tail(rows))

\* the fewest columns process_data accepts
MinColumns == 4

\* the column check made inside the loop, so only when there is a row
process_data_check_per_row(table) ==
    IF table.rows = <<>> THEN [raised |-> FALSE, items |-> <<>>]
    ELSE IF table.ncols < MinColumns THEN [raised |-> TRUE, items |-> <<>>]
    ELSE [raised |-> FALSE, items |-> ProcessRows(table.rows)]

\* process_data(df): raised is the ValueError of the column check
process_data(table) ==
    IF table.ncols < MinColumns
    THEN [raised |-> TRUE, items |-> <<>>]
    ELSE [raised |-> FALSE, items |-> ProcessRows(table.rows)]

----------------------------------------------------------------------------
(* The data of the two charts *)

RECURSIVE Select(_, _)
\* [item for item in data if item['dimensao'] == dim]
Select(data, dim) ==
    IF data = <<>> THEN <<>>
    ELSE (IF Head(data).dimensao = dim THEN <<Head(data)>> ELSE <<>>)
         \o Select(Tail(data), dim)

\* Counter([item['dimensao'] for item in data])[dim]
DimensionCount(data, dim) == Len(Select(data, dim))

positive_values(data) ==
    LET sel == Select(data, Positivo) IN [i \in 1..Len(sel) |-> sel[i].valor]

negative_values(data) ==
    LET sel == Select(data, Negativo) IN [i \in 1..Len(sel) |-> AbsVal(sel[i].valor)]

RECURSIVE Sum(_)
\* sum(xs): left to right from 0
Sum(xs) ==
    IF xs = <<>> THEN Zero
    ELSE Add(Sum(SubSeq(xs, 1, Len(xs) - 1)), xs[Len(xs)])

RECURSIVE MaxOf(_)
\* max(xs) for a non-empty list: the first item no later item exceeds
MaxOf(xs) ==
    IF Len(xs) = 1 THEN xs[1]
    ELSE LET m == MaxOf(SubSeq(xs, 1, Len(xs) - 1))
         IN  IF Greater(xs[Len(xs)], m) THEN xs[Len(xs)] ELSE m

Average(xs) == IF xs # <<>> THEN DivInt(Sum(xs), Len(xs)) ELSE Zero
Maximum(xs) == IF xs # <<>> THEN MaxOf(xs) ELSE Zero

\* avg_values and max_values, each [positive, negative]
ValueStats(data) ==
    [avg |-> <<Average(positive_values(data)), Average(negative_values(data))>>,
     max |-> <<Maximum(positive_values(data)), Maximum(negative_values(data))>>]

----------------------------------------------------------------------------
(* pyplot's figures *)

\* what a figure shows
Blank == [kind |-> "blank", data |-> <<>>]
Pie(pos, neg) == [kind |-> "pie", data |-> <<pos, neg>>]
Bars(st) == [kind |-> "bars", data |-> st.avg \o st.max]

\* a figure names the request that created it and which chart it was created for
Handle(r, chart) == [owner |-> r, chart |-> chart]
NoFig == Handle(0, "none")
Figure(r, chart) == [owner |-> r, chart |-> chart, content |-> Blank]
HandleOf(f) == Handle(f.owner, f.chart)

\* plt.subplots(): a new figure, registered last, which makes it current
Subplots(reg, r, chart) == Append(reg, Figure(r, chart))

\* drawing through the axes object of figure h
Draw(reg, h, content) ==
    [i \in 1..Len(reg) |->
        IF HandleOf(reg[i]) = h THEN [reg[i] EXCEPT !.content = content] ELSE reg[i]]

\* plt.gcf(): the registry, with a new figure when none is open
Gcf(reg, r) == IF reg = <<>> THEN <<Figure(r, "implicit")>> ELSE reg

\* the figure plt.savefig saves: the current one
Current(reg) == reg[Len(reg)]

RECURSIVE Close(_, _)
\* plt.close(fig): the figure leaves the registry
Close(reg, h) ==
    IF reg = <<>> THEN <<>>
    ELSE (IF HandleOf(Head(reg)) = h THEN <<>> ELSE <<Head(reg)>>) \o Close(Tail(reg), h)

\* base64 of the PNG of a figure: never the empty string
Encode(content) == <<"png", content>>
EmptyImage == <<>>

\* the dict the handler of lines 176-181 returns
EmptyCharts == [dimension_chart |-> EmptyImage, value_chart |-> EmptyImage]
ChartKeys == {"dimension_chart", "value_chart"}

----------------------------------------------------------------------------
(* Inputs *)

RECURSIVE Texts(_, _)
\* the texts of at most n characters over chars
Texts(chars, n) ==
    IF n = 0 THEN {<<>>}
    ELSE LET shorter == Texts(chars, n - 1)
         IN  shorter \cup {Append(s, c) : s \in shorter, c \in chars}

ValueChars == {"1", "5", ".", "-", "k", "SUP2"}
CatChars == {"n", "N", "e", "E", "g", "x"}

LongNumber == Repeat("9", LongDigits)

\* cells clean_numeric is applied to
CleanInputs ==
    {Null} \cup {Txt(s) : s \in Texts(ValueChars, MaxLen)}
           \cup {Txt(LongNumber), Txt(<<"-">> \o LongNumber)}

SP == <<"S", "P">>
IDH == <<"I", "D", "H">>

ValueCells ==
    {Null, Txt(<<"-", "1", ".", "5", "k">>), Txt(LongNumber), Txt(<<"-">> \o LongNumber)}

DataRows ==
    {Row(<<(IF c.na THEN Null ELSE Txt(SP)), c, Txt(IDH), v>>, FALSE) :
        c \in {Null, Txt(<<"N", "e", "g">>)}, v \in ValueCells}

FailingRow == Row(<<Null, Null, Null, Null>>, TRUE)

CatRows ==
    {Row(<<Txt(SP), Txt(s), Txt(IDH), Txt(<<"5">>)>>, FALSE) : s \in Texts(CatChars, MaxLen)}

\* a four-cell row cut or padded to n columns
Fit(row, n) ==
    [row EXCEPT !.cells = [i \in 1..n |-> IF i <= Len(row.cells) THEN row.cells[i] ELSE Null]]

RECURSIVE RowSeqs(_, _)
RowSeqs(rows, n) ==
    IF n = 0 THEN {<<>>}
    ELSE LET shorter == RowSeqs(rows, n - 1)
         IN  shorter \cup {Append(s, r) : s \in shorter, r \in rows}

ColCounts == (MinColumns - 1)..(MinColumns + 1)

\* the tables of the sequential specification
Tables ==
    {Table(n, [i \in 1..Len(rs) |-> Fit(rs[i], n)]) :
        n \in ColCounts, rs \in RowSeqs(DataRows \cup {FailingRow}, MaxRows)}
    \cup {Table(MinColumns, <<r>>) : r \in CatRows}

NegRow == Row(<<Txt(SP), Txt(<<"N", "e", "g">>), Txt(IDH), Txt(<<"-", "1", ".", "5", "k">>)>>, FALSE)
PosRow == Row(<<Txt(SP), Txt(<<"x">>), Txt(IDH), Txt(<<"5">>)>>, FALSE)

\* the tables of the concurrent specification
SmallTables ==
    {Table(MinColumns - 1, <<Fit(PosRow, MinColumns - 1)>>),
     Table(MinColumns, <<NegRow, FailingRow>>)}

----------------------------------------------------------------------------
(* State *)

NoTable == Table(0, <<>>)
NoStats == [avg |-> <<>>, max |-> <<>>]
NoResponse ==
    [kind |-> "none", preview |-> <<>>, total_records |-> 0,
     analysis |-> <<>>, charts |-> <<>>]

\* jsonify({'error': ...}), 500
ErrorResponse ==
    [kind |-> "error", preview |-> <<>>, total_records |-> 0,
     analysis |-> <<>>, charts |-> <<>>]

\* df.head(5)
Head5(rows) == SubSeq(rows, 1, IF Len(rows) < 5 THEN Len(rows) ELSE 5)

\* response_data of lines 65-70
OkResponse(table, data, ch) ==
    [kind |-> "ok", preview |-> Head5(table.rows), total_records |-> Len(table.rows),
     analysis |-> data, charts |-> ch]

InitRequests ==
    /\ pc = [t \in Threads |-> "idle"]
    /\ df = [t \in Threads |-> NoTable]
    /\ processed = [t \in Threads |-> <<>>]
    /\ charts = [t \in Threads |-> <<>>]
    /\ fig = [t \in Threads |-> NoFig]
    /\ stats = [t \in Threads |-> NoStats]
    /\ failedAt = [t \in Threads |-> "none"]
    /\ response = [t \in Threads |-> NoResponse]
    /\ req = [t \in Threads |-> 0]
    /\ figs = <<>>
    /\ served = 0

Init ==
    /\ value = Null
    /\ cleaned = Zero
    /\ cleanPc = "idle"
    /\ InitRequests

InitClean ==
    /\ value \in CleanInputs
    /\ cleaned = Zero
    /\ cleanPc = "call"
    /\ InitRequests

----------------------------------------------------------------------------
(* Actions *)

\* one call clean_numeric(value)
Clean ==
    /\ cleanPc = "call"
    /\ cleaned' = clean_numeric(value)
    /\ cleanPc' = "done"
    /\ UNCHANGED <<value, reqVars, figs, served>>

\* generate_charts returns ch (line 183) and upload_file returns the
\* response assembled from it (lines 65-75)
Return(t, ch) ==
    /\ charts' = [charts EXCEPT ![t] = ch]
    /\ response' = [response EXCEPT ![t] = OkResponse(df[t], processed[t], ch)]
    /\ pc' = [pc EXCEPT ![t] = "done"]

\* a handler that returns charts as they are
FailKeepsCharts(t, where) ==
    /\ failedAt' = [failedAt EXCEPT ![t] = where]
    /\ Return(t, charts[t])

\* a handler that blanks only the chart that has not been encoded
FailPerChart(t, where) ==
    /\ failedAt' = [failedAt EXCEPT ![t] = where]
    /\ Return(t, [k \in ChartKeys |->
                     IF k \in DOMAIN charts[t] THEN charts[t][k] ELSE EmptyImage])

\* the except handler of generate_charts (lines 176-181), then the return
Fail(t, where) ==
    /\ failedAt' = [failedAt EXCEPT ![t] = where]
    /\ Return(t, EmptyCharts)

\* upload_file up to the call of generate_charts (lines 44-62): the table is
\* read and process_data runs; its ValueError reaches the handler of lines 77-78
Upload(t, table) ==
    /\ pc[t] = "idle"
    /\ served < MaxRequests
    /\ served' = served + 1
    /\ req' = [req EXCEPT ![t] = served + 1]
    /\ df' = [df EXCEPT ![t] = table]
    /\ LET r == process_data(table)
       IN  IF r.raised
           THEN /\ response' = [response EXCEPT ![t] = ErrorResponse]
                /\ pc' = [pc EXCEPT ![t] = "done"]
                /\ UNCHANGED processed
           ELSE /\ processed' = [processed EXCEPT ![t] = r.items]
                /\ pc' = [pc EXCEPT ![t] = "dim_subplots"]
                /\ UNCHANGED response
    /\ UNCHANGED <<cleanVars, charts, fig, stats, failedAt, figs>>

\* lines 126-128: fig, ax = plt.subplots()
DimSubplots(t) ==
    /\ pc[t] = "dim_subplots"
    /\ figs' = Subplots(figs, req[t], "dim")
    /\ fig' = [fig EXCEPT ![t] = Handle(req[t], "dim")]
    /\ pc' = [pc EXCEPT ![t] = "dim_draw"]
    /\ UNCHANGED <<cleanVars, df, processed, charts, stats, failedAt, response, req, served>>

\* lines 129-135: ax.pie(...), ax.axis('equal'); the drawing may raise
DimDraw(t) ==
    /\ pc[t] = "dim_draw"
    /\ \/ /\ figs' = Draw(figs, fig[t], Pie(DimensionCount(processed[t], Positivo),
                                              DimensionCount(processed[t], Negativo)))
          /\ pc' = [pc EXCEPT ![t] = "dim_save"]
          /\ UNCHANGED <<charts, failedAt, response>>
       \/ /\ Fail(t, "dim_draw")
          /\ UNCHANGED figs
    /\ UNCHANGED <<cleanVars, df, processed, fig, stats, req, served>>

\* lines 137-140: plt.savefig(buffer, ...) saves the current figure; the
\* encoding may raise
DimSave(t) ==
    /\ pc[t] = "dim_save"
    /\ figs' = Gcf(figs, req[t])
    /\ \/ /\ charts' = [charts EXCEPT
                  ![t] = ("dimension_chart" :> Encode(Current(figs').content)) @@ charts[t]]
          /\ pc' = [pc EXCEPT ![t] = "dim_close"]
          /\ UNCHANGED <<failedAt, response>>
       \/ Fail(t, "dim_save")
    /\ UNCHANGED <<cleanVars, df, processed, fig, stats, req, served>>

\* line 141: plt.close(fig)
DimClose(t) ==
    /\ pc[t] = "dim_close"
    /\ figs' = Close(figs, fig[t])
    /\ pc' = [pc EXCEPT ![t] = "val_subplots"]
    /\ UNCHANGED <<cleanVars, df, processed, charts, fig, stats, failedAt, response, req, served>>

\* lines 144-147: the value lists, then fig, ax = plt.subplots()
ValSubplots(t) ==
    /\ pc[t] = "val_subplots"
    /\ figs' = Subplots(figs, req[t], "val")
    /\ fig' = [fig EXCEPT ![t] = Handle(req[t], "val")]
    /\ pc' = [pc EXCEPT ![t] = "val_draw"]
    /\ UNCHANGED <<cleanVars, df, processed, charts, stats, failedAt, response, req, served>>

\* lines 148-168: avg_values, max_values, then the bars; the drawing may raise
ValDraw(t) ==
    /\ pc[t] = "val_draw"
    /\ stats' = [stats EXCEPT ![t] = ValueStats(processed[t])]
    /\ \/ /\ figs' = Draw(figs, fig[t], Bars(ValueStats(processed[t])))
          /\ pc' = [pc EXCEPT ![t] = "val_save"]
          /\ UNCHANGED <<charts, failedAt, response>>
       \/ /\ Fail(t, "val_draw")
          /\ UNCHANGED figs
    /\ UNCHANGED <<cleanVars, df, processed, fig, req, served>>

\* lines 170-173: plt.savefig(buffer, ...) saves the current figure; the
\* encoding may raise
ValSave(t) ==
    /\ pc[t] = "val_save"
    /\ figs' = Gcf(figs, req[t])
    /\ \/ /\ charts' = [charts EXCEPT
                  ![t] = ("value_chart" :> Encode(Current(figs').content)) @@ charts[t]]
          /\ pc' = [pc EXCEPT ![t] = "val_close"]
          /\ UNCHANGED <<failedAt, response>>
       \/ Fail(t, "val_save")
    /\ UNCHANGED <<cleanVars, df, processed, fig, stats, req, served>>

\* line 174: plt.close(fig), then the return
ValClose(t) ==
    /\ pc[t] = "val_close"
    /\ figs' = Close(figs, fig[t])
    /\ Return(t, charts[t])
    /\ UNCHANGED <<cleanVars, df, processed, fig, stats, failedAt, req, served>>

\* the thread is given the next request: its locals are fresh
NextRequest(t) ==
    /\ pc[t] = "done"
    /\ served < MaxRequests
    /\ pc' = [pc EXCEPT ![t] = "idle"]
    /\ df' = [df EXCEPT ![t] = NoTable]
    /\ processed' = [processed EXCEPT ![t] = <<>>]
    /\ charts' = [charts EXCEPT ![t] = <<>>]
    /\ fig' = [fig EXCEPT ![t] = NoFig]
    /\ stats' = [stats EXCEPT ![t] = NoStats]
    /\ failedAt' = [failedAt EXCEPT ![t] = "none"]
    /\ response' = [response EXCEPT ![t] = NoResponse]
    /\ UNCHANGED <<cleanVars, req, figs, served>>

\* the steps of generate_charts, the last with the return of upload_file
Step(t) ==
    \/ DimSubplots(t)
    \/ DimDraw(t)
    \/ DimSave(t)
    \/ DimClose(t)
    \/ ValSubplots(t)
    \/ ValDraw(t)
    \/ ValSave(t)
    \/ ValClose(t)

\* requests served by concurrent threads, one after another on each thread
Next ==
    \E t \in Threads :
        \/ \E table \in SmallTables : Upload(t, table)
        \/ Step(t)
        \/ NextRequest(t)

\* one request on one thread
NextSeq ==
    \/ \E table \in Tables : Upload(1, table)
    \/ Step(1)

NextClean == Clean

Spec == Init /\ [][Next]_vars
SpecSeq == Init /\ [][NextSeq]_vars
SpecClean == InitClean /\ [][NextClean]_vars

----------------------------------------------------------------------------
(* Properties *)

\* generate_charts of thread t has returned
Returned(t) == pc[t] = "done"

\* the images of the charts of data, drawn and encoded on a figure of its own
OwnDimensionChart(data) ==
    Encode(Pie(DimensionCount(data, Positivo), DimensionCount(data, Negativo)))
OwnValueChart(data) == Encode(Bars(ValueStats(data)))

\* a chart image is a string: empty, or an encoded PNG
IsImage(img) == img = EmptyImage \/ (Len(img) = 2 /\ img[1] = "png")

\* the indices of the rows that do not raise, in order
Kept(rows) == SelectSeq([i \in 1..Len(rows) |-> i], LAMBDA i : ~rows[i].raises)

\* C1: a table with fewer than 4 columns, whatever its rows, ends the request
\* with the error response: no row is normalized, no analysis record and no
\* chart is returned, and no figure is created.
C1_SchemaErrorNoPartialResult ==
    \A t \in Threads :
        (req[t] # 0 /\ df[t].ncols < 4) =>
            /\ pc[t] = "done"
            /\ response[t].kind = "error"
            /\ response[t].analysis = <<>>
            /\ response[t].charts = <<>>
            /\ processed[t] = <<>>
            /\ charts[t] = <<>>
            /\ figs = <<>>

C1_Witness ==
    \E t \in Threads :
        /\ df[t].ncols = 3
        /\ Len(df[t].rows) = 1
        /\ response[t].kind = "error"

\* C2 as stated: a failure while rendering the value chart leaves the
\* dimension chart, which was encoded, non-empty in the response.
C2_PerChartContainment ==
    \A t \in Threads :
        (pc[t] = "done" /\ failedAt[t] \in {"val_draw", "val_save"}) =>
            response[t].charts["dimension_chart"] # EmptyImage

\* C2 amended: a render failure in either chart is contained in
\* generate_charts as a whole: both images are the empty string, and the
\* analysis and the record count are those of the table; without a failure
\* both images are non-empty.
C2_FailureBlanksBothCharts ==
    \A t \in Threads :
        (pc[t] = "done" /\ response[t].kind = "ok") =>
            /\ failedAt[t] # "none" =>
                  /\ response[t].charts["dimension_chart"] = EmptyImage
                  /\ response[t].charts["value_chart"] = EmptyImage
            /\ failedAt[t] = "none" =>
                  /\ response[t].charts["dimension_chart"] # EmptyImage
                  /\ response[t].charts["value_chart"] # EmptyImage
            /\ response[t].analysis = processed[t]
            /\ response[t].total_records = Len(df[t].rows)

C2_Witness ==
    \E t \in Threads :
        /\ pc[t] = "done"
        /\ failedAt[t] = "val_save"
        /\ response[t].charts["dimension_chart"] = EmptyImage
        /\ response[t].analysis # <<>>

\* C3: under every interleaving the image an invocation encodes is that of
\* the figure it created and drew: the pie of its own counts for
\* dimension_chart, the bars of its own statistics for value_chart.
C3_EncodesOwnFigureOnly ==
    \A t \in Threads : \A k \in DOMAIN charts[t] :
        \/ charts[t][k] = EmptyImage
        \/ k = "dimension_chart" /\ charts[t][k] = OwnDimensionChart(processed[t])
        \/ k = "value_chart" /\ charts[t][k] = OwnValueChart(processed[t])

\* C4: every open figure belongs to an invocation of generate_charts that
\* has not returned.
C4_NoFigureOutlivesItsInvocation ==
    \A i \in 1..Len(figs) :
        \E t \in Threads : req[t] = figs[i].owner /\ pc[t] # "idle" /\ ~Returned(t)

\* C5: the analysis has one record per row that did not raise, in all at
\* most total_records, the row count of the table, and as many exactly when
\* no row raised.
C5_AnalysisWithinTotalRecords ==
    \A t \in Threads :
        (pc[t] = "done" /\ df[t].ncols >= 4) =>
            LET rows == df[t].rows
                r == response[t]
            IN  /\ r.total_records = Len(rows)
                /\ Len(r.analysis) <= r.total_records
                /\ (Len(r.analysis) = r.total_records) <=> (\A i \in 1..Len(rows) : ~rows[i].raises)
                /\ Len(r.analysis) = Cardinality({i \in 1..Len(rows) : ~rows[i].raises})

C5_Witness ==
    \E t \in Threads :
        /\ pc[t] = "done"
        /\ Len(df[t].rows) = 2
        /\ df[t].rows[1].raises
        /\ ~df[t].rows[2].raises
        /\ Len(response[t].analysis) = 1
        /\ response[t].total_records = 2

\* C6: a request with a table of at least 4 columns never ends with the error
\* response, whatever rows or renders fail, and its charts hold exactly the
\* keys dimension_chart and value_chart, each a string.
C6_OnlySchemaErrorPropagates ==
    \A t \in Threads :
        (req[t] # 0 /\ df[t].ncols >= 4) =>
            /\ response[t].kind # "error"
            /\ Returned(t) =>
                  /\ DOMAIN charts[t] = ChartKeys
                  /\ \A k \in ChartKeys : IsImage(charts[t][k])
            /\ pc[t] = "done" =>
                  /\ response[t].kind = "ok"
                  /\ DOMAIN response[t].charts = ChartKeys
                  /\ \A k \in ChartKeys : IsImage(response[t].charts[k])

C6_Witness ==
    \E t \in Threads :
        /\ pc[t] = "done"
        /\ failedAt[t] = "dim_draw"
        /\ \E i \in 1..Len(df[t].rows) : df[t].rows[i].raises
        /\ response[t].kind = "ok"
        /\ response[t].charts = EmptyCharts

\* C7: clean_numeric returns a finite number for every cell.
C7_CleanNumericFinite ==
    cleanPc = "done" => IsFinite(cleaned)

\* c is an ASCII digit, '.' or '-'
IsAsciiNumeric(c) == c \in AsciiDigits \cup {".", "-"}

\* C8: for a non-null cell clean_numeric is the number read from the ASCII
\* digits, '.' and '-' of its text, and 0 when that text is empty or is not a
\* well-formed number.
C8_KeepsAsciiDigitsOnly ==
    (cleanPc = "done" /\ ~value.na) =>
        LET kept == SelectSeq(value.text, IsAsciiNumeric)
        IN  cleaned = IF kept # <<>> /\ FloatParses(kept) THEN Float(kept) ELSE Zero

\* the text holds n, e, g in a row, in either case
HasNeg(cell) ==
    /\ ~cell.na
    /\ \E i \in 1..(Len(cell.text) - 2) :
          /\ cell.text[i] \in {"n", "N"}
          /\ cell.text[i + 1] \in {"e", "E"}
          /\ cell.text[i + 2] \in {"g", "G"}

\* C9: every record of process_data has the category Negativo or Positivo,
\* Negativo exactly when the text of column 1 of its row holds "neg" in
\* either case; a null cell gives Positivo.
C9_CategoryIsNegIffTextHasNeg ==
    \A t \in Threads :
        (req[t] # 0 /\ df[t].ncols >= 4) =>
            LET rows == df[t].rows
                kept == Kept(rows)
            IN  /\ Len(processed[t]) = Len(kept)
                /\ \A j \in 1..Len(kept) :
                      /\ processed[t][j].dimensao \in {Negativo, Positivo}
                      /\ (processed[t][j].dimensao = Negativo) <=> HasNeg(rows[kept[j]].cells[2])

C9_Witness ==
    \E t \in Threads :
        /\ pc[t] = "done"
        /\ Len(df[t].rows) = 1
        /\ df[t].rows[1].cells[2] = Txt(<<"N", "E", "g">>)
        /\ processed[t][1].dimensao = Negativo

\* avg is the arithmetic mean of xs and mx its largest value; both 0 for no xs
IsMeanAndMax(avg, mx, xs) ==
    IF xs = <<>> THEN avg = Zero /\ mx = Zero
    ELSE /\ avg.k # "nan"
         /\ (\A i \in 1..Len(xs) : xs[i].k = "num") =>
               /\ avg.k = "num"
               /\ Add(Sum(xs), Rat(-(avg.n * Len(xs)), avg.d)) = Zero
         /\ \E i \in 1..Len(xs) : xs[i] = mx
         /\ \A i \in 1..Len(xs) : ~Greater(xs[i], mx)

\* C10: the statistics of the value chart are, per category, the arithmetic
\* mean and the largest of the values (absolute values for Negativo), 0 for a
\* category without records, and the same for every ordering of the records.
C10_StatsAreMeanAndMax ==
    \A t \in Threads :
        stats[t] # NoStats =>
            LET data == processed[t]
            IN  /\ IsMeanAndMax(stats[t].avg[1], stats[t].max[1], positive_values(data))
                /\ IsMeanAndMax(stats[t].avg[2], stats[t].max[2], negative_values(data))
                /\ \A p \in Permutations(1..Len(data)) :
                      ValueStats([i \in 1..Len(data) |-> data[p[i]]]) = stats[t]

====
